---- MODULE Spec2Model ----
(***************************************************************************)
(* Model of src/modules/perl.rs: the perl prompt module of starship.       *)
(*                                                                         *)
(* One behaviour is one call of module(context).  The inputs of the call   *)
(* (the directory listing held by the context, the outcome of the external *)
(* perl process, the user's configuration) are chosen in Init; the actions *)
(* are the statements of module() in program order.                        *)
(*                                                                         *)
(* Strings the program inspects or builds (file names, captured output,    *)
(* segment texts) are sequences of one-character strings, so that          *)
(* prefixing, trimming and taking an extension are computed, not assumed.  *)
(***************************************************************************)
EXTENDS Naturals, Sequences, FiniteSets

VARIABLES dir, tool, config, pc, is_perl_project, execCalls,
          perl_version, formatted_version, module, result

vars == <<dir, tool, config, pc, is_perl_project, execCalls,
          perl_version, formatted_version, module, result>>

(* Rust's Option: None is the empty tuple, Some(x) the one-element tuple;  *)
(* None also stands for a local that is not yet bound                     *)
None == <<>>

Some(x) == <<x>>

unwrap(o) == o[1]

(***************************************************************************)
(* Bounds                                                                  *)
(***************************************************************************)
(* longest captured standard output that is enumerated *)
MaxLen == 3

(* largest number of entries of an enumerated directory listing *)
MaxFiles == 3

(***************************************************************************)
(* File names                                                              *)
(***************************************************************************)
Makefile_PL == <<"M","a","k","e","f","i","l","e",".","P","L">>

cpanfile == <<"c","p","a","n","f","i","l","e">>

META_json == <<"M","E","T","A",".","j","s","o","n">>

META_yml == <<"M","E","T","A",".","y","m","l">>

perl_version_file == <<".","p","e","r","l","-","v","e","r","s","i","o","n">>

any_pl == <<"a","n","y",".","p","l">>

Foo_pm == <<"F","o","o",".","p","m">>

composer_json == <<"c","o","m","p","o","s","e","r",".","j","s","o","n">>

README_md == <<"R","E","A","D","M","E",".","m","d">>

dot_pl == <<".","p","l">>

(* variant: the marker list without cpanfile *)
PerlFiles_NoCpanfile == {Makefile_PL, META_json, META_yml, perl_version_file}

(* the marker file names given to set_files *)
PerlFiles == {Makefile_PL, cpanfile, META_json, META_yml, perl_version_file}

(* the extensions given to set_extensions *)
PerlExtensions == {<<"p","l">>, <<"p","m">>}

(* the file names a modelled directory may contain *)
FileNames ==
    {Makefile_PL, cpanfile, META_json, META_yml, perl_version_file,
     any_pl, Foo_pm, composer_json, README_md, dot_pl}

(***************************************************************************)
(* The directory probe (Context::try_begin_scan ... is_match)              *)
(***************************************************************************)
(* positions of the dots of a file name *)
DotPositions(name) == {i \in 1..Len(name) : name[i] = "."}

(* greatest element of a non-empty set of naturals *)
MaxOf(S) == CHOOSE m \in S : \A n \in S : n <= m

(* the extension of a file name: the text after its last dot; a name      *)
(* without a dot, or whose only dot is its first character, has none      *)
extension(name) ==
    IF DotPositions(name) = {} \/ MaxOf(DotPositions(name)) = 1
    THEN None
    ELSE Some(SubSeq(name, MaxOf(DotPositions(name)) + 1, Len(name)))

has_any_file(listing, names) == \E f \in listing : f \in names

has_any_extension(listing, exts) ==
    \E f \in listing : extension(f) # None /\ unwrap(extension(f)) \in exts

is_match(listing, files, extensions) ==
    has_any_file(listing, files) \/ has_any_extension(listing, extensions)

(* variant: the result of is_match negated *)
probe_Negated(listing) == ~is_match(listing, PerlFiles, PerlExtensions)

(* the scan of module(): set_files(..).set_extensions(..).is_match() *)
probe(listing) == is_match(listing, PerlFiles, PerlExtensions)

(* try_begin_scan: None when the directory listing cannot be obtained *)
try_begin_scan(d) == IF d.readable THEN Some(d.files) ELSE None

(***************************************************************************)
(* The external process (utils::exec_cmd)                                  *)
(***************************************************************************)
(* characters of a captured standard output *)
Chars == {"5", "v", " "}

Whitespace == {" "}

(* str::trim: the string without its leading and trailing whitespace *)
RECURSIVE trim_start(_)
trim_start(s) ==
    IF s # <<>> /\ Head(s) \in Whitespace THEN trim_start(Tail(s)) ELSE s

RECURSIVE trim_end(_)
trim_end(s) ==
    IF s # <<>> /\ s[Len(s)] \in Whitespace
    THEN trim_end(SubSeq(s, 1, Len(s) - 1)) ELSE s

trim(s) == trim_end(trim_start(s))

RECURSIVE SeqsUpTo(_)
SeqsUpTo(n) ==
    IF n = 0 THEN {<<>>}
    ELSE SeqsUpTo(n - 1) \cup
         {Append(s, c) : s \in {t \in SeqsUpTo(n - 1) : Len(t) = n - 1}, c \in Chars}

(* exec_cmd: None when the binary is missing or exits non-zero, otherwise *)
(* the command output with its captured stdout                            *)
exec_cmd(t) == IF t.ok THEN Some([stdout |-> t.stdout]) ELSE None

(***************************************************************************)
(* format_perl_version                                                     *)
(***************************************************************************)
(* variant: a version that already starts with the marker is not prefixed *)
format_perl_version_SkipPrefixed(version) ==
    IF version # <<>> /\ Head(version) = "v" THEN Some(version)
    ELSE Some(<<"v">> \o version)

(* variant: an empty version is rejected *)
format_perl_version_RejectEmpty(version) ==
    IF version = <<>> THEN None ELSE Some(<<"v">> \o version)

format_perl_version(version) == Some(<<"v">> \o version)

(***************************************************************************)
(* Configuration and Module (PerlConfig::try_load, Context::new_module,    *)
(* Module::set_style, Module::create_segment)                              *)
(***************************************************************************)
DefaultSymbol == <<"camel", " ">>

DefaultStyle == "Fixed(149).bold"

CustomSymbol == <<"p", "l", " ">>

CustomStyle == "red"

(* style of a module on which set_style has not been called *)
UnsetStyle == "Style::default"

(* try_load: each key the user did not set takes its default *)
try_load(c) ==
    [symbol |-> IF c.symbol = None THEN DefaultSymbol ELSE unwrap(c.symbol),
     style  |-> IF c.style = None THEN DefaultStyle ELSE unwrap(c.style)]

new_module(name) == [name |-> name, style |-> UnsetStyle, segments |-> <<>>]

set_style(m, style) == [m EXCEPT !.style = style]

create_segment(m, name, value) ==
    [m EXCEPT !.segments = Append(@, [name |-> name, value |-> value])]

(***************************************************************************)
(* Inputs of one evaluation                                                *)
(***************************************************************************)
Listings == {L \in SUBSET FileNames : Cardinality(L) <= MaxFiles}

Directories ==
    {[readable |-> TRUE, files |-> L] : L \in Listings}
        \cup {[readable |-> FALSE, files |-> {}]}

ToolOutcomes ==
    {[ok |-> TRUE, stdout |-> s] : s \in SeqsUpTo(MaxLen)}
        \cup {[ok |-> FALSE, stdout |-> s] : s \in SeqsUpTo(1)}

Configs ==
    {[symbol |-> sy, style |-> st] :
        sy \in {None, Some(CustomSymbol)}, st \in {None, Some(CustomStyle)}}

Init ==
    /\ dir \in Directories
    /\ tool \in ToolOutcomes
    /\ config \in Configs
    /\ pc = "Probing"
    /\ is_perl_project = None
    /\ execCalls = 0
    /\ perl_version = None
    /\ formatted_version = None
    /\ module = None
    /\ result = None

(***************************************************************************)
(* module(context), statement by statement                                 *)
(***************************************************************************)
(* variant: the early return on !is_perl_project is missing *)
Probe_NoGate ==
    /\ pc = "Probing"
    /\ LET scan == try_begin_scan(dir) IN
       IF scan = None
       THEN /\ pc' = "Absent"
            /\ UNCHANGED is_perl_project
       ELSE /\ is_perl_project' = Some(probe(unwrap(scan)))
            /\ pc' = "Resolving"
    /\ UNCHANGED <<dir, tool, config, execCalls, perl_version,
                   formatted_version, module, result>>

(* let is_perl_project = context.try_begin_scan()?...is_match();           *)
(* if !is_perl_project { return None; }                                    *)
Probe ==
    /\ pc = "Probing"
    /\ LET scan == try_begin_scan(dir) IN
       IF scan = None
       THEN /\ pc' = "Absent"
            /\ UNCHANGED is_perl_project
       ELSE /\ is_perl_project' = Some(probe(unwrap(scan)))
            /\ pc' = IF unwrap(is_perl_project') THEN "Resolving" ELSE "Absent"
    /\ UNCHANGED <<dir, tool, config, execCalls, perl_version,
                   formatted_version, module, result>>

(* variant: a failed invocation yields an empty version (unwrap_or_default) *)
Resolve_DefaultOnFailure ==
    /\ pc = "Resolving"
    /\ execCalls' = execCalls + 1
    /\ LET out == exec_cmd(tool) IN
       /\ perl_version' = IF out = None THEN Some(<<>>) ELSE Some(unwrap(out).stdout)
       /\ pc' = "Formatting"
    /\ UNCHANGED <<dir, tool, config, is_perl_project, formatted_version,
                   module, result>>

(* variant: a failed invocation is attempted a second time *)
Resolve_Retry ==
    /\ pc = "Resolving"
    /\ execCalls' = execCalls + 1
    /\ LET out == exec_cmd(tool) IN
       IF out = None
       THEN /\ pc' = IF execCalls = 0 THEN "Resolving" ELSE "Absent"
            /\ UNCHANGED perl_version
       ELSE /\ perl_version' = Some(unwrap(out).stdout)
            /\ pc' = "Formatting"
    /\ UNCHANGED <<dir, tool, config, is_perl_project, formatted_version,
                   module, result>>

(* variant: the captured output is trimmed before use *)
Resolve_Trimmed ==
    /\ pc = "Resolving"
    /\ execCalls' = execCalls + 1
    /\ LET out == exec_cmd(tool) IN
       IF out = None
       THEN /\ pc' = "Absent"
            /\ UNCHANGED perl_version
       ELSE /\ perl_version' = Some(trim(unwrap(out).stdout))
            /\ pc' = "Formatting"
    /\ UNCHANGED <<dir, tool, config, is_perl_project, formatted_version,
                   module, result>>

(* let perl_version = utils::exec_cmd("perl", ...)?.stdout;                *)
Resolve ==
    /\ pc = "Resolving"
    /\ execCalls' = execCalls + 1
    /\ LET out == exec_cmd(tool) IN
       IF out = None
       THEN /\ pc' = "Absent"
            /\ UNCHANGED perl_version
       ELSE /\ perl_version' = Some(unwrap(out).stdout)
            /\ pc' = "Formatting"
    /\ UNCHANGED <<dir, tool, config, is_perl_project, formatted_version,
                   module, result>>

(* let formatted_version = format_perl_version(&perl_version)?;            *)
Format ==
    /\ pc = "Formatting"
    /\ LET f == format_perl_version(unwrap(perl_version)) IN
       IF f = None
       THEN /\ pc' = "Absent"
            /\ UNCHANGED formatted_version
       ELSE /\ formatted_version' = f
            /\ pc' = "NewModule"
    /\ UNCHANGED <<dir, tool, config, is_perl_project, execCalls,
                   perl_version, module, result>>

(* let mut module = context.new_module("perl");                            *)
NewModule ==
    /\ pc = "NewModule"
    /\ module' = Some(new_module("perl"))
    /\ pc' = "SetStyle"
    /\ UNCHANGED <<dir, tool, config, is_perl_project, execCalls,
                   perl_version, formatted_version, result>>

(* let config = PerlConfig::try_load(module.config);                       *)
(* module.set_style(config.style);                                         *)
SetStyle ==
    /\ pc = "SetStyle"
    /\ module' = Some(set_style(unwrap(module), try_load(config).style))
    /\ pc' = "SymbolSegment"
    /\ UNCHANGED <<dir, tool, config, is_perl_project, execCalls,
                   perl_version, formatted_version, result>>

(* module.create_segment("symbol", &config.symbol);                        *)
SymbolSegment ==
    /\ pc = "SymbolSegment"
    /\ module' = Some(create_segment(unwrap(module), "symbol", try_load(config).symbol))
    /\ pc' = "VersionSegment"
    /\ UNCHANGED <<dir, tool, config, is_perl_project, execCalls,
                   perl_version, formatted_version, result>>

(* variant: the version segment replaces the segment list *)
VersionSegment_Overwrite ==
    /\ pc = "VersionSegment"
    /\ module' = Some([unwrap(module) EXCEPT !.segments =
                        <<[name |-> "version", value |-> unwrap(formatted_version)]>>])
    /\ pc' = "Return"
    /\ UNCHANGED <<dir, tool, config, is_perl_project, execCalls,
                   perl_version, formatted_version, result>>

(* module.create_segment("version", &SegmentConfig::new(&formatted_version)); *)
VersionSegment ==
    /\ pc = "VersionSegment"
    /\ module' = Some(create_segment(unwrap(module), "version", unwrap(formatted_version)))
    /\ pc' = "Return"
    /\ UNCHANGED <<dir, tool, config, is_perl_project, execCalls,
                   perl_version, formatted_version, result>>

(* Some(module)                                                            *)
Return ==
    /\ pc = "Return"
    /\ result' = module
    /\ pc' = "Assembled"
    /\ UNCHANGED <<dir, tool, config, is_perl_project, execCalls,
                   perl_version, formatted_version, module>>

Next ==
    \/ Probe
    \/ Resolve
    \/ Format
    \/ NewModule
    \/ SetStyle
    \/ SymbolSegment
    \/ VersionSegment
    \/ Return

Spec == Init /\ [][Next]_vars

(* the evaluation has returned *)
Returned == pc \in {"Assembled", "Absent"}

TypeOK ==
    /\ dir \in Directories
    /\ tool \in ToolOutcomes
    /\ config \in Configs
    /\ pc \in {"Probing", "Resolving", "Formatting", "NewModule", "SetStyle",
               "SymbolSegment", "VersionSegment", "Return", "Assembled", "Absent"}
    /\ is_perl_project \in {None, Some(TRUE), Some(FALSE)}
    /\ execCalls \in Nat

(***************************************************************************)
(* Properties                                                              *)
(***************************************************************************)
(* the probe matched on the directory of this evaluation *)
ProbeMatched == dir.readable /\ probe(dir.files)

(* the segment texts of a module, in order *)
Texts(m) == [i \in 1..Len(m.segments) |-> m.segments[i].value]

(* the segment names of a module, in order *)
Names(m) == [i \in 1..Len(m.segments) |-> m.segments[i].name]

(* C1: once the evaluation has returned, a module is returned if and only  *)
(* if the probe matched, the external tool succeeded and formatting        *)
(* succeeded; every other outcome is "no module", and a returned module    *)
(* never has fewer than both segments.                                     *)
C1_ModuleIffChainSucceeds ==
    /\ Returned =>
          /\ (result # None) <=>
                (ProbeMatched /\ tool.ok /\ formatted_version # None)
          /\ (result = None) <=> (pc = "Absent")
    /\ result # None => Len(unwrap(result).segments) = 2

(* the probe matched, the tool failed, and the evaluation returned nothing *)
C1_Witness ==
    /\ pc = "Absent"
    /\ ProbeMatched
    /\ ~tool.ok
    /\ execCalls = 1
    /\ result = None

(* C2: when none of the configured file names or extensions is present in  *)
(* the directory, the evaluation returns "no module" and the external tool *)
(* is invoked zero times; the tool is only ever invoked after the probe    *)
(* has matched.                                                            *)
C2_NoMatchNoInvocation ==
    /\ ~ProbeMatched =>
          /\ execCalls = 0
          /\ result = None
          /\ pc \in {"Probing", "Absent"}
    /\ execCalls > 0 => is_perl_project = Some(TRUE)

(* a non-empty directory without markers, a tool that would have succeeded *)
C2_Witness ==
    /\ pc = "Absent"
    /\ dir.readable
    /\ dir.files # {}
    /\ is_perl_project = Some(FALSE)
    /\ tool.ok
    /\ execCalls = 0

(* the segments of m are exactly the symbol and the version, in that order *)
TwoSegments(m) ==
    /\ Names(m) = <<"symbol", "version">>
    /\ Texts(m) = <<IF config.symbol = None THEN DefaultSymbol
                    ELSE unwrap(config.symbol),
                    unwrap(formatted_version)>>

(* every segment present before a step is present, unchanged and at the    *)
(* same position, after it                                                 *)
SegmentsKept ==
    module # None =>
        /\ module' # None
        /\ Len(unwrap(module').segments) >= Len(unwrap(module).segments)
        /\ \A i \in 1..Len(unwrap(module).segments) :
              unwrap(module').segments[i] = unwrap(module).segments[i]

(* C3: a returned module carries exactly two segments, "symbol" with the   *)
(* configured symbol then "version" with the formatted version, and no     *)
(* step adds to the two, removes, reorders or changes an appended segment. *)
C3_TwoSegmentsInOrder ==
    /\ [](result # None => TwoSegments(unwrap(result)))
    /\ [](module # None => Len(unwrap(module).segments) <= 2)
    /\ [][SegmentsKept]_vars

(* a module was returned for a user-configured symbol *)
C3_Witness ==
    /\ pc = "Assembled"
    /\ result # None
    /\ config.symbol # None
    /\ Len(unwrap(result).segments) = 2

(* the file name ends in ".pl" or ".pm" after a non-empty stem *)
EndsInPlOrPm(f) ==
    /\ Len(f) > 3
    /\ SubSeq(f, Len(f) - 2, Len(f)) \in {<<".","p","l">>, <<".","p","m">>}

(* the listing holds one of the five marker files or a pl / pm file *)
HasPerlMarker(L) ==
    \E f \in L :
        \/ f \in {Makefile_PL, cpanfile, META_json, META_yml, perl_version_file}
        \/ EndsInPlOrPm(f)

(* C4: for a listing with a marker file name or a pl / pm file and a tool  *)
(* that succeeds with output s, the returned module has the segment texts  *)
(* [symbol, "v" + s] and the configured or default style; an empty         *)
(* directory yields "no module".                                           *)
C4_MarkerYieldsModule ==
    Returned =>
        /\ (dir.readable /\ HasPerlMarker(dir.files) /\ tool.ok) =>
              /\ result # None
              /\ Texts(unwrap(result)) =
                    <<IF config.symbol = None THEN DefaultSymbol
                      ELSE unwrap(config.symbol),
                      <<"v">> \o tool.stdout>>
              /\ unwrap(result).style =
                    IF config.style = None THEN DefaultStyle
                    ELSE unwrap(config.style)
        /\ (dir.readable /\ dir.files = {}) => result = None

(* only cpanfile is present, defaults apply, and a module was returned *)
C4_Witness ==
    /\ pc = "Assembled"
    /\ dir.files = {cpanfile}
    /\ config.symbol = None
    /\ config.style = None
    /\ tool.stdout = <<"5">>
    /\ result # None

(* C5: for a non-empty raw version s the formatter returns "v" + s: never  *)
(* none, the marker prefixed exactly once, no character of s changed.      *)
C5_FormatPrefixesV ==
    (pc \notin {"Probing", "Resolving", "Formatting"}
        /\ perl_version # None /\ unwrap(perl_version) # <<>>) =>
        /\ formatted_version # None
        /\ LET f == unwrap(formatted_version)
               s == unwrap(perl_version)
           IN /\ Len(f) = Len(s) + 1
              /\ f[1] = "v"
              /\ \A i \in 1..Len(s) : f[i + 1] = s[i]

(* a raw version that itself starts with the marker has been formatted *)
C5_Witness ==
    /\ pc = "NewModule"
    /\ perl_version = Some(<<"v", "5">>)
    /\ formatted_version = Some(<<"v", "v", "5">>)

(* C6 as stated: the string handed to the formatter, and the text after    *)
(* the "v" of the version segment, is the captured output trimmed of       *)
(* leading and trailing whitespace.                                        *)
C6_FormatterGetsTrimmedOutput ==
    /\ perl_version # None => unwrap(perl_version) = trim(tool.stdout)
    /\ result # None => Tail(Texts(unwrap(result))[2]) = trim(tool.stdout)

(* C6 amended: the string handed to the formatter, and the text after the  *)
(* "v" of the version segment, is the captured output itself, unchanged    *)
(* and untrimmed.                                                          *)
C6_FormatterGetsRawOutput ==
    /\ perl_version # None => unwrap(perl_version) = tool.stdout
    /\ result # None => Tail(Texts(unwrap(result))[2]) = tool.stdout

(* an output with leading and trailing whitespace reached the segment *)
C6_Witness ==
    /\ pc = "Assembled"
    /\ tool.stdout = <<" ", "5", " ">>
    /\ perl_version = Some(<<" ", "5", " ">>)
    /\ Texts(unwrap(result))[2] = <<"v", " ", "5", " ">>

(* C7: the version is displayed whenever the directory contains a file     *)
(* with extension pl or pm, a composer.json file or a .perl-version file,  *)
(* given that the version tool succeeds.                                   *)
C7_DocCommentCriteria ==
    (Returned /\ dir.readable /\ tool.ok
        /\ \/ \E f \in dir.files : EndsInPlOrPm(f)
           \/ composer_json \in dir.files
           \/ perl_version_file \in dir.files) =>
        result # None

(* a failed invocation returns at once, after exactly one attempt *)
FailureIsFinal ==
    (pc = "Resolving" /\ ~tool.ok) => (pc' = "Absent" /\ execCalls' = 1)

(* C8: the external tool is invoked at most once per evaluation, and a     *)
(* failed invocation leads straight to Absent without another invocation.  *)
C8_AtMostOneInvocation ==
    /\ [](execCalls <= 1)
    /\ [](pc = "Absent" /\ is_perl_project = Some(TRUE) => execCalls = 1)
    /\ [][FailureIsFinal]_vars

(* the single invocation failed and the evaluation ended *)
C8_Witness ==
    /\ pc = "Absent"
    /\ is_perl_project = Some(TRUE)
    /\ ~tool.ok
    /\ execCalls = 1

(* C9: the probe is monotonic in the listing: when it matches on a subset  *)
(* of the directory's listing it matches on the listing itself.            *)
C9_ProbeMonotonic ==
    is_perl_project # None =>
        \A L \in SUBSET dir.files : probe(L) => unwrap(is_perl_project)

(* the probe matched on a listing that has a matching strict subset and a  *)
(* non-matching entry                                                      *)
C9_Witness ==
    /\ is_perl_project = Some(TRUE)
    /\ \E L \in SUBSET dir.files : L # dir.files /\ probe(L)
    /\ \E f \in dir.files : ~probe({f})

(* formatting never ends the evaluation *)
FormattingNeverAbsent == pc = "Formatting" => pc' # "Absent"

(* C10: when the probe matches and the tool succeeds with empty output, a  *)
(* module is returned whose version text is just "v"; no step leads from   *)
(* Formatting to Absent.                                                   *)
C10_EmptyOutputStillRenders ==
    /\ [](Returned /\ ProbeMatched /\ tool.ok /\ tool.stdout = <<>> =>
            /\ result # None
            /\ Texts(unwrap(result))[2] = <<"v">>)
    /\ [][FormattingNeverAbsent]_vars

(* a module was returned for an empty captured output *)
C10_Witness ==
    /\ pc = "Assembled"
    /\ tool.ok
    /\ tool.stdout = <<>>
    /\ perl_version = Some(<<>>)
    /\ result # None

====
